---- MODULE Spec2Model ----
(***************************************************************************)
(* Model of AccountRepositoryDB (src/account/account_repository_db.cpp):   *)
(* the account persistence gateway.  The relational store is a set of      *)
(* tables; every store round-trip of a gateway method is one step of the   *)
(* calling thread, so that other callers and the clock may move between    *)
(* the round-trips of one load.                                            *)
(***************************************************************************)
EXTENDS Integers, Sequences, FiniteSets, TLC

\* ------------------------------------------------------------------ bounds
MaxDay == 2          \* clock and lastday range over days 0..MaxDay
MaxCoins == 1        \* coin balances and amounts range over 0..MaxCoins
MaxPlayers == 3      \* rows of the players table

\* --------------------------------------------------------- program constants
DaySeconds == 86400

\* Clock values: the first two seconds of each day, so that differences of
\* 86399, 86400 and 86401 seconds all occur.  The clock is never 0.
Times == { d * DaySeconds + o : d \in 0..MaxDay, o \in {0, 1} } \ {0}

Callers == {"A", "B"}
AccountIds == {1, 2}       \* the stored accounts
LookupIds == {1, 2, 3}     \* the ids callers ask for; 3 is not stored
AccountTypes == {1, 2}
Names == <<"Aria", "Bron">>
Tokens == {"abc", "tok"}

VARIABLES
    accounts,          \* table accounts: id -> row
    account_sessions,  \* table account_sessions: digest -> row
    players,           \* table players: sequence of rows in storage order
    now,               \* the wall clock read by getTimeNow()
    pc,                \* per caller: position inside the current call
    op,                \* per caller: the gateway method of the current/last call
    acc,               \* per caller: the caller-owned AccountInfo record
    ret,               \* per caller: return value of the last finished call
    coins,             \* per caller: the output argument of getCoins
    trace,             \* per caller: store round-trips of the current/last call
    cursor,            \* per caller: the rows loadAccountPlayers last iterated
    written,           \* ids whose row a reconciliation write-back has updated
    lost,              \* per caller: the stored columns its write-back replaced
                       \* when they were no longer the ones its load had read
    lastSet            \* per caller: <<id, type, amount>> of its setCoins on a
                       \* stored account that no write has followed, or <<>>

vars == <<accounts, account_sessions, players, now, pc, op, acc, ret, coins, trace,
          cursor, written, lost, lastSet>>

\* ------------------------------------------------------------ AccountInfo
FreshAccount ==
    [id |-> 0, accountType |-> 0, premiumRemainingDays |-> 0, premiumLastDay |-> 0,
     sessionExpires |-> 0, premiumDaysPurchased |-> 0, creationTime |-> 0,
     players |-> <<>>]

UsedAccount ==
    [id |-> 2, accountType |-> 2, premiumRemainingDays |-> 1,
     premiumLastDay |-> DaySeconds, sessionExpires |-> 1,
     premiumDaysPurchased |-> 1, creationTime |-> 1, players |-> <<>>]

EntryRecords == {FreshAccount, UsedAccount}

\* ------------------------------------------------------------------ store
\* g_database().escapeString: the value as a quoted SQL literal.
escapeString(s) == <<"'", s, "'">>

\* The store reading a quoted literal back.
Unquote(lit) == lit[2]

\* transformToSHA1 on the session keys in use.
transformToSHA1(key) ==
    CASE key = "abc" -> "a9993e364706816aba3e25717850c26c9cd0d89d"
      [] key = "tok" -> "79bead8e6d65862a00cffaa12ccde1189ec34d29"

RECURSIVE Ascending(_)
Ascending(S) ==
    IF S = {} THEN <<>>
    ELSE LET m == CHOOSE x \in S : \A y \in S : x <= y
         IN  <<m>> \o Ascending(S \ {m})

\* The rows of `accounts` (joined with `account_sessions` for a session
\* query) that satisfy the WHERE clause of `query`, with the selected
\* columns of the load queries.
LoadRow(id, expires) ==
    [id |-> id, type |-> accounts[id].type, premdays |-> accounts[id].premdays,
     lastday |-> accounts[id].lastday, creation |-> accounts[id].creation,
     premdays_purchased |-> accounts[id].premdays_purchased, expires |-> expires]

SelectAccounts(query) ==
    IF query.table = "accounts"
    THEN LET hit == { i \in DOMAIN accounts :
                        IF query.column = "id" THEN i = query.value
                        ELSE accounts[i][query.column] = Unquote(query.value) }
             ids == Ascending(hit)
         IN  IF hit = {} THEN <<>>
             ELSE [k \in 1..Len(ids) |-> LoadRow(ids[k], 0)]
    ELSE LET hit == { d \in DOMAIN account_sessions :
                        /\ d = Unquote(query.value)
                        /\ account_sessions[d].account_id \in DOMAIN accounts }
         IN  IF hit = {} THEN <<>>
             ELSE LET d == CHOOSE d \in hit : TRUE
                  IN  <<LoadRow(account_sessions[d].account_id,
                                account_sessions[d].expires)>>

\* Database::storeQuery: a cursor over the rows, or no result handle
\* (the empty sequence) when the store fails or no row matches.
storeQuery(rows, up) == IF up THEN rows ELSE <<>>

\* One logged store round-trip.
Trip(call, query, ok) == [call |-> call, query |-> query, ok |-> ok]

\* ---------------------------------------------------------------- gateway
\* The three lookup queries.
QueryByID(id) == [table |-> "accounts", column |-> "id", value |-> id]

QueryByEmailOrName(oldProtocol, emailOrName) ==
    [table |-> "accounts", column |-> IF oldProtocol THEN "name" ELSE "email",
     value |-> escapeString(emailOrName)]

QueryBySession(sessionKey) ==
    [table |-> "account_sessions", column |-> "id",
     value |-> escapeString(transformToSHA1(sessionKey))]

\* premiumLastDay > getTimeNow() ? (premiumLastDay - getTimeNow()) / 86400 : 0
\* with the two clock reads t1 and t2.  Every value of the model lies far
\* below 2^31, so the unsigned 32-bit fields hold it unchanged.
RemainingDays(lastDay, t1, t2) ==
    IF lastDay > t1 THEN (lastDay - t2) \div DaySeconds ELSE 0

\* A load that trusts the stored premdays column.
MapRow_StoredDays(a, row, t) ==
    [a EXCEPT !.id = row.id,
              !.accountType = row.type,
              !.premiumLastDay = row.lastday,
              !.sessionExpires = row.expires,
              !.premiumDaysPurchased = row.premdays_purchased,
              !.creationTime = row.creation,
              !.premiumRemainingDays = row.premdays]

\* load: the row of the cursor mapped into the record.
MapRow(a, row, t) ==
    [a EXCEPT !.id = row.id,
              !.accountType = row.type,
              !.premiumLastDay = row.lastday,
              !.sessionExpires = row.expires,
              !.premiumDaysPurchased = row.premdays_purchased,
              !.creationTime = row.creation,
              !.premiumRemainingDays = RemainingDays(row.lastday, t, t)]

\* A reconciliation that sets the creation time but never raises the
\* purchased days.
setupLoyaltyInfo_NoRaise(a, t) ==
    IF a.premiumDaysPurchased >= a.premiumRemainingDays /\ a.creationTime # 0
    THEN [acc |-> a, save |-> FALSE]
    ELSE [acc |-> IF a.creationTime = 0 THEN [a EXCEPT !.creationTime = t] ELSE a,
          save |-> TRUE]

\* A reconciliation whose consistency test is strict (> for >=).
setupLoyaltyInfo_Strict(a, t) ==
    IF a.premiumDaysPurchased > a.premiumRemainingDays /\ a.creationTime # 0
    THEN [acc |-> a, save |-> FALSE]
    ELSE LET a1 == IF a.premiumDaysPurchased < a.premiumRemainingDays
                   THEN [a EXCEPT !.premiumDaysPurchased = a.premiumRemainingDays]
                   ELSE a
             a2 == IF a1.creationTime = 0
                   THEN [a1 EXCEPT !.creationTime = t]
                   ELSE a1
         IN  [acc |-> a2, save |-> TRUE]

\* setupLoyaltyInfo without its store round-trip: the corrected record and
\* whether save is called.
setupLoyaltyInfo(a, t) ==
    IF a.premiumDaysPurchased >= a.premiumRemainingDays /\ a.creationTime # 0
    THEN [acc |-> a, save |-> FALSE]
    ELSE LET a1 == IF a.premiumDaysPurchased < a.premiumRemainingDays
                   THEN [a EXCEPT !.premiumDaysPurchased = a.premiumRemainingDays]
                   ELSE a
             a2 == IF a1.creationTime = 0
                   THEN [a1 EXCEPT !.creationTime = t]
                   ELSE a1
         IN  [acc |-> a2, save |-> TRUE]

\* A save with the two day counts in each other's column.
save_SwappedDays(tbl, accInfo) ==
    [i \in DOMAIN tbl |->
        IF i = accInfo.id
        THEN [tbl[i] EXCEPT !.type = accInfo.accountType,
                            !.premdays = accInfo.premiumDaysPurchased,
                            !.lastday = accInfo.premiumLastDay,
                            !.creation = accInfo.creationTime,
                            !.premdays_purchased = accInfo.premiumRemainingDays]
        ELSE tbl[i]]

\* A save that writes the loyalty columns only.
save_LoyaltyOnly(tbl, accInfo) ==
    [i \in DOMAIN tbl |->
        IF i = accInfo.id
        THEN [tbl[i] EXCEPT !.creation = accInfo.creationTime,
                            !.premdays_purchased = accInfo.premiumDaysPurchased]
        ELSE tbl[i]]

\* save: the UPDATE of the columns type, premdays, lastday, creation and
\* premdays_purchased of the row WHERE id = accInfo.id.
save(tbl, accInfo) ==
    [i \in DOMAIN tbl |->
        IF i = accInfo.id
        THEN [tbl[i] EXCEPT !.type = accInfo.accountType,
                            !.premdays = accInfo.premiumRemainingDays,
                            !.lastday = accInfo.premiumLastDay,
                            !.creation = accInfo.creationTime,
                            !.premdays_purchased = accInfo.premiumDaysPurchased]
        ELSE tbl[i]]

\* coinTypeToColumn, built by the constructor.
\* A column table with an entry for the coin type 0 as well.
coinTypeToColumn_WithZero ==
    (0 :> "coins") @@ (1 :> "coins") @@ (2 :> "tournament_coins")
        @@ (3 :> "coins_transferable")

Normal == 1
Tournament == 2
Transferable == 3

coinTypeToColumn ==
    (Normal :> "coins") @@ (Tournament :> "tournament_coins")
        @@ (Transferable :> "coins_transferable")

\* The uint8_t coin types callers pass: the three known ones, 0 and 4.
CoinTypeInputs == 0..4

\* ----------------------------------------------------------- player list
NameRank(n) == CHOOSE k \in 1..Len(Names) : Names[k] = n

\* SELECT name, deletion FROM players WHERE account_id = id ORDER BY name ASC:
\* every ordering of the matching rows that ascends by name (rows of equal
\* name come in an order the store chooses).
PlayersByName(id) ==
    LET idx == { k \in 1..Len(players) : players[k].account_id = id }
        n == Cardinality(idx)
        ord == { p \in [1..n -> idx] :
                   /\ \A i, j \in 1..n : i # j => p[i] # p[j]
                   /\ \A i, j \in 1..n :
                        i < j => NameRank(players[p[i]].name)
                                   <= NameRank(players[p[j]].name) }
    IN  { [k \in 1..n |-> [name |-> players[p[k]].name,
                           deletion |-> players[p[k]].deletion]] : p \in ord }

\* acc.players.try_emplace: no insertion when the name is already a key.
\* `row` records the cursor position an entry came from.
try_emplace(set, name, deletion, row) ==
    IF \E i \in 1..Len(set) : set[i].name = name
    THEN set
    ELSE Append(set, [name |-> name, deletion |-> deletion, row |-> row])

\* A loop that does not skip the deleted characters.
RECURSIVE PlayersLoop_KeepDeleted(_, _, _)
PlayersLoop_KeepDeleted(result, k, set) ==
    IF k > Len(result) THEN set
    ELSE PlayersLoop_KeepDeleted(result, k + 1,
                     try_emplace(set, result[k].name, result[k].deletion, k))

\* The do/while loop of loadAccountPlayers from cursor position k on.
RECURSIVE PlayersLoop(_, _, _)
PlayersLoop(result, k, set) ==
    IF k > Len(result) THEN set
    ELSE IF result[k].deletion # 0
         THEN PlayersLoop(result, k + 1, set)
         ELSE PlayersLoop(result, k + 1,
                          try_emplace(set, result[k].name, result[k].deletion, k))

\* The columns save writes, as the record holds them.
SavedColumns(a) ==
    [type |-> a.accountType, premdays |-> a.premiumRemainingDays,
     lastday |-> a.premiumLastDay, creation |-> a.creationTime,
     premdays_purchased |-> a.premiumDaysPurchased]

StoredColumns(row) ==
    [type |-> row.type, premdays |-> row.premdays, lastday |-> row.lastday,
     creation |-> row.creation, premdays_purchased |-> row.premdays_purchased]

\* The stored columns a load keeps in the record, in the row and as held.
ReadColumns(row) ==
    [type |-> row.type, lastday |-> row.lastday, creation |-> row.creation,
     premdays_purchased |-> row.premdays_purchased]

HeldColumns(a) ==
    [type |-> a.accountType, lastday |-> a.premiumLastDay,
     creation |-> a.creationTime, premdays_purchased |-> a.premiumDaysPurchased]

\* ----------------------------------------------------------------- steps
\* The caller gets a record ready for its next call.
Prepare(c) ==
    /\ pc[c] = "idle"
    /\ pc' = [pc EXCEPT ![c] = "ready"]
    /\ \E e \in EntryRecords : acc' = [acc EXCEPT ![c] = e]
    /\ trace' = [trace EXCEPT ![c] = <<>>]
    /\ lost' = [lost EXCEPT ![c] = <<>>]
    /\ UNCHANGED <<accounts, account_sessions, players, now, op, ret, coins,
                   cursor, written, lastSet>>

\* A load that does not fail fast: without a result handle it goes on to
\* setupLoyaltyInfo with the record as it is.
load_NoFailFast(c, method, query) ==
    /\ pc[c] = "ready"
    /\ \E up \in BOOLEAN :
         LET result == storeQuery(SelectAccounts(query), up)
         IN  /\ trace' = [trace EXCEPT
                            ![c] = <<Trip("storeQuery", query, result # <<>>)>>]
             /\ acc' = IF result = <<>> THEN acc
                       ELSE [acc EXCEPT ![c] = MapRow(acc[c], result[1], now)]
             /\ pc' = [pc EXCEPT ![c] = "setup"]
             /\ ret' = ret
    /\ op' = [op EXCEPT ![c] = <<method>>]
    /\ UNCHANGED <<accounts, account_sessions, players, now, coins, cursor, written,
                   lost, lastSet>>

\* load, up to the call of setupLoyaltyInfo.
load(c, method, query) ==
    /\ pc[c] = "ready"
    /\ \E up \in BOOLEAN :
         LET result == storeQuery(SelectAccounts(query), up)
         IN  /\ trace' = [trace EXCEPT
                            ![c] = <<Trip("storeQuery", query, result # <<>>)>>]
             /\ IF result = <<>>
                THEN /\ ret' = [ret EXCEPT ![c] = FALSE]
                     /\ pc' = [pc EXCEPT ![c] = "idle"]
                     /\ acc' = acc
                ELSE /\ acc' = [acc EXCEPT ![c] = MapRow(acc[c], result[1], now)]
                     /\ pc' = [pc EXCEPT ![c] = "setup"]
                     /\ ret' = ret
    /\ op' = [op EXCEPT ![c] = <<method>>]
    /\ UNCHANGED <<accounts, account_sessions, players, now, coins, cursor, written,
                   lost, lastSet>>

loadByID(c, id) == load(c, "loadByID", QueryByID(id))

loadByEmailOrName(c, oldProtocol, emailOrName) ==
    load(c, "loadByEmailOrName", QueryByEmailOrName(oldProtocol, emailOrName))

loadBySession(c, sessionKey) ==
    load(c, "loadBySession", QueryBySession(sessionKey))

\* setupLoyaltyInfo called by load, with the write-back of save.
SetupLoyalty(c) ==
    /\ pc[c] = "setup"
    /\ LET r == setupLoyaltyInfo(acc[c], now)
       IN  /\ acc' = [acc EXCEPT ![c] = r.acc]
           /\ IF r.save
              THEN \E up \in BOOLEAN :
                     /\ accounts' = IF up THEN save(accounts, r.acc) ELSE accounts
                     /\ written' = IF up /\ r.acc.id \in DOMAIN accounts
                                   THEN written \cup {r.acc.id} ELSE written
                     /\ lost' = IF up /\ r.acc.id \in DOMAIN accounts
                                   /\ ReadColumns(accounts[r.acc.id]) # HeldColumns(acc[c])
                                THEN [lost EXCEPT ![c] = StoredColumns(accounts[r.acc.id])]
                                ELSE lost
                     /\ lastSet' = IF up THEN [d \in Callers |-> <<>>] ELSE lastSet
                     /\ trace' = [trace EXCEPT ![c] = Append(@,
                            Trip("executeQuery",
                                 [table |-> "accounts", column |-> "id",
                                  value |-> r.acc.id], up))]
              ELSE UNCHANGED <<accounts, trace, written, lost, lastSet>>
    /\ pc' = [pc EXCEPT ![c] = "players"]
    /\ UNCHANGED <<account_sessions, players, now, op, ret, coins, cursor>>

\* A player-list load that reports success without a result handle.
loadAccountPlayers_AlwaysTrue(c) ==
    /\ pc[c] = "players"
    /\ \E up \in BOOLEAN : \E rows \in PlayersByName(acc[c].id) :
         LET result == storeQuery(rows, up)
         IN  /\ trace' = [trace EXCEPT ![c] = Append(@,
                    Trip("storeQuery",
                         [table |-> "players", column |-> "account_id",
                          value |-> acc[c].id], result # <<>>))]
             /\ cursor' = [cursor EXCEPT ![c] = result]
             /\ acc' = [acc EXCEPT ![c].players = PlayersLoop(result, 1, @)]
             /\ ret' = [ret EXCEPT ![c] = TRUE]
    /\ pc' = [pc EXCEPT ![c] = "idle"]
    /\ UNCHANGED <<accounts, account_sessions, players, now, op, coins, written,
                   lost, lastSet>>

\* loadAccountPlayers called by load; its result is the result of load.
loadAccountPlayers(c) ==
    /\ pc[c] = "players"
    /\ \E up \in BOOLEAN : \E rows \in PlayersByName(acc[c].id) :
         LET result == storeQuery(rows, up)
         IN  /\ trace' = [trace EXCEPT ![c] = Append(@,
                    Trip("storeQuery",
                         [table |-> "players", column |-> "account_id",
                          value |-> acc[c].id], result # <<>>))]
             /\ cursor' = [cursor EXCEPT ![c] = result]
             /\ IF result = <<>>
                THEN /\ ret' = [ret EXCEPT ![c] = FALSE]
                     /\ acc' = acc
                ELSE /\ acc' = [acc EXCEPT
                                  ![c].players = PlayersLoop(result, 1, @)]
                     /\ ret' = [ret EXCEPT ![c] = TRUE]
    /\ pc' = [pc EXCEPT ![c] = "idle"]
    /\ UNCHANGED <<accounts, account_sessions, players, now, op, coins, written,
                   lost, lastSet>>

\* The public save, called with the caller's record.
Save(c, accInfo) ==
    /\ pc[c] = "ready"
    /\ \E up \in BOOLEAN :
         /\ accounts' = IF up THEN save(accounts, accInfo) ELSE accounts
         /\ lastSet' = IF up THEN [d \in Callers |-> <<>>] ELSE lastSet
         /\ ret' = [ret EXCEPT ![c] = up]
         /\ trace' = [trace EXCEPT ![c] =
                <<Trip("executeQuery",
                       [table |-> "accounts", column |-> "id",
                        value |-> accInfo.id], up)>>]
    /\ acc' = [acc EXCEPT ![c] = accInfo]
    /\ op' = [op EXCEPT ![c] = <<"save">>]
    /\ pc' = [pc EXCEPT ![c] = "idle"]
    /\ UNCHANGED <<account_sessions, players, now, coins, cursor, written, lost>>

\* getTimeNow() moves on.
Tick ==
    /\ \E t \in Times : t > now /\ now' = t
    /\ UNCHANGED <<accounts, account_sessions, players, pc, op, acc, ret, coins,
                   trace, cursor, written, lost, lastSet>>

\* An update that adds the amount to the balance.
UpdateColumn_Delta(tbl, id, column, amount) ==
    [i \in DOMAIN tbl |-> IF i = id THEN [tbl[i] EXCEPT ![column] = @ + amount]
                          ELSE tbl[i]]

\* UPDATE accounts SET column = amount WHERE id = id.
UpdateColumn(tbl, id, column, amount) ==
    [i \in DOMAIN tbl |-> IF i = id THEN [tbl[i] EXCEPT ![column] = amount]
                          ELSE tbl[i]]

\* getCoins: one SELECT of the mapped column, unless the type is unknown.
getCoins(c, id, type) ==
    /\ pc[c] = "ready"
    /\ IF type \notin DOMAIN coinTypeToColumn
       THEN /\ ret' = [ret EXCEPT ![c] = FALSE]
            /\ UNCHANGED <<coins, trace>>
       ELSE \E up \in BOOLEAN :
              LET column == coinTypeToColumn[type]
                  rows == IF id \in DOMAIN accounts
                          THEN <<[value |-> accounts[id][column]]>> ELSE <<>>
                  result == storeQuery(rows, up)
              IN  /\ trace' = [trace EXCEPT ![c] =
                         <<Trip("storeQuery",
                                [table |-> "accounts", column |-> "id",
                                 value |-> id], result # <<>>)>>]
                  /\ IF result = <<>>
                     THEN /\ ret' = [ret EXCEPT ![c] = FALSE]
                          /\ coins' = coins
                     ELSE /\ coins' = [coins EXCEPT ![c] = result[1].value]
                          /\ ret' = [ret EXCEPT ![c] = TRUE]
    /\ op' = [op EXCEPT ![c] = <<"getCoins", id, type>>]
    /\ pc' = [pc EXCEPT ![c] = "idle"]
    /\ UNCHANGED <<accounts, account_sessions, players, now, acc, cursor, written,
                   lost, lastSet>>

\* setCoins: one UPDATE of the mapped column, unless the type is unknown.
setCoins(c, id, type, amount) ==
    /\ pc[c] = "ready"
    /\ IF type \notin DOMAIN coinTypeToColumn
       THEN /\ ret' = [ret EXCEPT ![c] = FALSE]
            /\ UNCHANGED <<accounts, trace, lastSet>>
       ELSE \E up \in BOOLEAN :
              LET column == coinTypeToColumn[type]
              IN  /\ accounts' = IF up THEN UpdateColumn(accounts, id, column, amount)
                                  ELSE accounts
                  /\ lastSet' =
                        IF up
                        THEN [d \in Callers |->
                                IF d = c /\ id \in DOMAIN accounts
                                THEN <<id, type, amount>> ELSE <<>>]
                        ELSE lastSet
                  /\ trace' = [trace EXCEPT ![c] =
                         <<Trip("executeQuery",
                                [table |-> "accounts", column |-> "id",
                                 value |-> id], up)>>]
                  /\ ret' = [ret EXCEPT ![c] = up]
    /\ op' = [op EXCEPT ![c] = <<"setCoins", id, type, amount>>]
    /\ pc' = [pc EXCEPT ![c] = "idle"]
    /\ UNCHANGED <<account_sessions, players, now, acc, coins, cursor, written, lost>>

\* ------------------------------------------------------------ initial rows
AccountName == (1 :> "alice") @@ (2 :> "bob")
AccountEmail == (1 :> "alice@example.org") @@ (2 :> "bob@example.org")

\* A consistent row: no premium, creation set.
BaseRow(id) ==
    [id |-> id, type |-> 1, premdays |-> 0, lastday |-> 0, creation |-> 1,
     premdays_purchased |-> 0, name |-> AccountName[id], email |-> AccountEmail[id],
     coins |-> 0, tournament_coins |-> 0, coins_transferable |-> 0]

\* The loyalty columns of account 1 in every combination.
LoyaltyRows ==
    { [BaseRow(1) EXCEPT !.premdays = pd, !.lastday = ld,
                         !.creation = cr, !.premdays_purchased = pp] :
        pd \in {0, 1}, ld \in {0} \cup Times, cr \in {0, 1}, pp \in 0..MaxDay }

Sessions ==
    (transformToSHA1("tok") :> [account_id |-> 1, expires |-> DaySeconds])

IdleCallers ==
    /\ pc = [c \in Callers |-> "idle"]
    /\ op = [c \in Callers |-> <<"none">>]
    /\ acc = [c \in Callers |-> FreshAccount]
    /\ ret = [c \in Callers |-> FALSE]
    /\ coins = [c \in Callers |-> 0]
    /\ trace = [c \in Callers |-> <<>>]
    /\ cursor = [c \in Callers |-> <<>>]
    /\ written = {}
    /\ lost = [c \in Callers |-> <<>>]
    /\ lastSet = [c \in Callers |-> <<>>]

\* ------------------------------------------------ Spec: one caller loading
Init ==
    /\ \E r \in LoyaltyRows :
         accounts = [i \in AccountIds |-> IF i = 1 THEN r ELSE BaseRow(i)]
    /\ account_sessions = Sessions
    /\ players = << [account_id |-> 1, name |-> "Bron", deletion |-> 0],
                    [account_id |-> 1, name |-> "Aria", deletion |-> 0] >>
    /\ now = 1
    /\ IdleCallers

Next ==
    \/ Prepare("A")
    \/ \E id \in LookupIds : loadByID("A", id)
    \/ \E old \in BOOLEAN : \E v \in {"alice", "alice@example.org"} :
         loadByEmailOrName("A", old, v)
    \/ \E k \in Tokens : loadBySession("A", k)
    \/ SetupLoyalty("A")
    \/ loadAccountPlayers("A")
    \/ Tick

Spec == Init /\ [][Next]_vars

\* ------------------------------------- SpecCoins: one caller and the coins
CoinColumns == {"coins", "tournament_coins", "coins_transferable"}

InitCoins ==
    /\ \E a, b, d \in 0..MaxCoins :
         accounts = [i \in AccountIds |->
                       IF i = 1 THEN [BaseRow(1) EXCEPT !.coins = a,
                                                        !.tournament_coins = b,
                                                        !.coins_transferable = d]
                       ELSE BaseRow(i)]
    /\ account_sessions = Sessions
    /\ players = <<>>
    /\ now = 1
    /\ IdleCallers

NextCoins ==
    \/ Prepare("A")
    \/ \E id \in {1, 3} : \E type \in CoinTypeInputs : getCoins("A", id, type)
    \/ \E id \in {1, 3} : \E type \in CoinTypeInputs : \E amount \in 0..MaxCoins :
         setCoins("A", id, type, amount)

SpecCoins == InitCoins /\ [][NextCoins]_vars

\* ------------------------------- SpecPlayers: one caller and the player list
PlayerRows == [account_id : AccountIds, name : {"Aria", "Bron"}, deletion : {0, 7}]

InitPlayers ==
    /\ accounts = [i \in AccountIds |-> BaseRow(i)]
    /\ account_sessions = Sessions
    /\ players \in UNION { [1..n -> PlayerRows] : n \in 0..MaxPlayers }
    /\ now = 1
    /\ IdleCallers

NextPlayers ==
    \/ Prepare("A")
    \/ \E id \in AccountIds : loadByID("A", id)
    \/ SetupLoyalty("A")
    \/ loadAccountPlayers("A")

SpecPlayers == InitPlayers /\ [][NextPlayers]_vars

\* --------------------------------- SpecRace: two callers on the same account
\* Caller A loads account 1 while caller B saves it.
\* The records a caller saves: the account type set, premium granted or not.
SaveRecords ==
    { [FreshAccount EXCEPT !.id = 1, !.accountType = ty, !.creationTime = 1,
                           !.premiumLastDay = g * (MaxDay * DaySeconds + 1),
                           !.premiumRemainingDays = g * MaxDay,
                           !.premiumDaysPurchased = g * MaxDay] :
        ty \in AccountTypes, g \in {0, 1} }

InitRace ==
    /\ \E ld \in {0, DaySeconds + 1} : \E cr \in {0, 1} :
         accounts = [i \in AccountIds |->
                       IF i = 1 THEN [BaseRow(1) EXCEPT !.lastday = ld, !.creation = cr]
                       ELSE BaseRow(i)]
    /\ account_sessions = Sessions
    /\ players = << [account_id |-> 1, name |-> "Aria", deletion |-> 0] >>
    /\ now = 1
    /\ IdleCallers

NextRace ==
    \/ \E c \in Callers : Prepare(c)
    \/ loadByID("A", 1)
    \/ SetupLoyalty("A")
    \/ loadAccountPlayers("A")
    \/ \E accInfo \in SaveRecords : Save("B", accInfo)
    \/ Tick

SpecRace == InitRace /\ [][NextRace]_vars

\* ------------------------------------------------------------- properties
LoadMethods == {"loadByID", "loadByEmailOrName", "loadBySession"}

Max(a, b) == IF a >= b THEN a ELSE b

\* The call of caller c has returned from one of the three loads.
Loaded(c) == pc[c] = "idle" /\ op[c][1] \in LoadMethods

\* C1: after every successful load the record has premiumDaysPurchased >=
\* premiumRemainingDays and a creationTime other than 0.
C1_LoadedRecordConsistent ==
    \A c \in Callers :
        (Loaded(c) /\ ret[c]) =>
            /\ acc[c].premiumDaysPurchased >= acc[c].premiumRemainingDays
            /\ acc[c].creationTime # 0

\* A successful load of a row that had premium days left, fewer purchased
\* days and no creation time.
C1_Witness ==
    \E c \in Callers :
        /\ Loaded(c) /\ ret[c]
        /\ Len(trace[c]) = 3
        /\ acc[c].premiumRemainingDays > 0
        /\ acc[c].premiumDaysPurchased = acc[c].premiumRemainingDays
        /\ acc[c].creationTime = now

\* C2: the step of load that maps the row sets premiumRemainingDays to
\* max(0, floor((premiumLastDay - now) / 86400)) of the stored lastday:
\* 0 when lastday is not in the future, 0 for 86399 seconds ahead, 1 for
\* 86400 seconds ahead, N for N whole days ahead, whatever premdays holds.
C2_RemainingDays ==
    [][\A c \in Callers :
         (pc[c] = "ready" /\ pc'[c] = "setup") =>
            LET a == acc'[c]
                ahead == accounts[a.id].lastday - now
            IN  /\ a.premiumLastDay = accounts[a.id].lastday
                /\ a.premiumRemainingDays = Max(0, ahead \div DaySeconds)
                /\ ahead <= 0 => a.premiumRemainingDays = 0
                /\ ahead = DaySeconds - 1 => a.premiumRemainingDays = 0
                /\ ahead = DaySeconds => a.premiumRemainingDays = 1
                /\ \A n \in 0..MaxDay :
                     ahead = n * DaySeconds => a.premiumRemainingDays = n]_vars

\* A row just mapped whose lastday is exactly one day ahead and whose
\* stored premdays is not 1.
C2_Witness ==
    \E c \in Callers :
        /\ pc[c] = "setup"
        /\ acc[c].premiumLastDay - now = DaySeconds
        /\ acc[c].premiumRemainingDays = 1
        /\ accounts[acc[c].id].premdays # 1

\* C3: reconciliation of a consistent record calls save zero times and
\* changes no field; of an inconsistent one it calls save exactly once, with
\* premiumDaysPurchased raised to premiumRemainingDays (if lower) and
\* creationTime set to the current time (if 0); run again on the record it
\* has corrected it writes nothing.
C3_ReconcileWritesOnce ==
    [][\A c \in Callers :
         (pc[c] = "setup" /\ pc'[c] = "players") =>
            LET a == acc[c]
                b == acc'[c]
                calls == Len(trace'[c]) - Len(trace[c])
            IN  /\ IF a.premiumDaysPurchased >= a.premiumRemainingDays
                      /\ a.creationTime # 0
                   THEN calls = 0 /\ b = a /\ accounts' = accounts
                   ELSE /\ calls = 1
                        /\ trace'[c][Len(trace'[c])].call = "executeQuery"
                        /\ b = [a EXCEPT
                                 !.premiumDaysPurchased =
                                     Max(a.premiumDaysPurchased, a.premiumRemainingDays),
                                 !.creationTime =
                                     IF a.creationTime = 0 THEN now ELSE a.creationTime]
                        /\ trace'[c][Len(trace'[c])].ok =>
                             StoredColumns(accounts'[b.id]) = SavedColumns(b)
                /\ ~setupLoyaltyInfo(b, now').save]_vars

\* The scenario of the specification: remaining days above the purchased
\* days and no creation time, written back once.
C3_Witness ==
    \E c \in Callers :
        /\ pc[c] = "players"
        /\ Len(trace[c]) = 2 /\ trace[c][2].call = "executeQuery" /\ trace[c][2].ok
        /\ acc[c].premiumRemainingDays = MaxDay
        /\ acc[c].premiumDaysPurchased = MaxDay
        /\ acc[c].creationTime = now
        /\ StoredColumns(accounts[acc[c].id]) = SavedColumns(acc[c])

\* C6: a load whose lookup yields no result handle returns failure at once,
\* leaves the caller's record as it was and issues no other round-trip.
C6_NoResultNoEffect ==
    [][\A c \in Callers :
         (/\ pc[c] = "ready" /\ pc'[c] # "ready"
          /\ op'[c][1] \in LoadMethods
          /\ ~trace'[c][1].ok) =>
            /\ pc'[c] = "idle"
            /\ ret'[c] = FALSE
            /\ acc'[c] = acc[c]
            /\ accounts' = accounts
            /\ Len(trace'[c]) = 1]_vars

\* loadBySession with the token "abc", whose digest is no session row, has
\* returned failure on a record the caller had used before.
C6_Witness ==
    \E c \in Callers :
        /\ pc[c] = "idle" /\ op[c] = <<"loadBySession">>
        /\ trace[c] = <<Trip("storeQuery", QueryBySession("abc"), FALSE)>>
        /\ ~ret[c]
        /\ acc[c] = UsedAccount

\* C9: a load whose player-list query yields no result handle returns
\* failure with the record's fields populated and the write-back, when one
\* was applied, left in the store.
C9_PlayerFailureAborts ==
    \A c \in Callers :
        (/\ Loaded(c) /\ Len(trace[c]) >= 2
         /\ trace[c][1].ok
         /\ ~trace[c][Len(trace[c])].ok
         /\ trace[c][Len(trace[c])].query.table = "players") =>
            /\ ~ret[c]
            /\ acc[c].id \in DOMAIN accounts
            /\ acc[c].players = <<>>
            /\ acc[c].accountType = accounts[acc[c].id].type
            /\ acc[c].premiumLastDay = accounts[acc[c].id].lastday
            /\ acc[c].premiumDaysPurchased >= acc[c].premiumRemainingDays
            /\ acc[c].creationTime # 0
            /\ (Len(trace[c]) = 3 /\ trace[c][2].ok) =>
                   StoredColumns(accounts[acc[c].id]) = SavedColumns(acc[c])

\* A failed load that has written its correction back to the store.
C9_Witness ==
    \E c \in Callers :
        /\ Loaded(c) /\ ~ret[c]
        /\ Len(trace[c]) = 3 /\ trace[c][2].ok /\ ~trace[c][3].ok
        /\ acc[c].id = 1
        /\ acc[c].premiumDaysPurchased > 0
        /\ StoredColumns(accounts[1]) = SavedColumns(acc[c])

\* C10: once a reconciliation write-back has updated an account's row, no
\* later load of that account writes; the stored premdays_purchased never
\* decreases and the stored creation, once nonzero, never changes.
C10_WriteBacksConverge ==
    [][/\ \A c \in Callers :
            (pc[c] = "setup" /\ pc'[c] = "players" /\ acc[c].id \in written) =>
                /\ trace'[c] = trace[c]
                /\ accounts' = accounts
       /\ \A i \in DOMAIN accounts :
            /\ accounts'[i].premdays_purchased >= accounts[i].premdays_purchased
            /\ accounts[i].creation # 0 =>
                   accounts'[i].creation = accounts[i].creation]_vars

\* A later load, at a later time, of an account a write-back has updated,
\* past its reconciliation without a write.
C10_Witness ==
    \E c \in Callers :
        /\ pc[c] = "players"
        /\ acc[c].id \in written
        /\ Len(trace[c]) = 1
        /\ now > accounts[acc[c].id].creation
        /\ accounts[acc[c].id].premdays_purchased > 0

\* C4: load holds no lock across its round-trips: a write-back that follows a
\* save made after the load read the row stores the loading caller's record
\* over it, with the lastday and type the load had read, whatever the store
\* held by then.
C4_WriteBackOverwrites ==
    [][\A c \in Callers :
         (/\ pc[c] = "setup" /\ pc'[c] = "players"
          /\ Len(trace'[c]) > Len(trace[c])
          /\ trace'[c][Len(trace'[c])].ok) =>
            /\ StoredColumns(accounts'[acc[c].id]) = SavedColumns(acc'[c])
            /\ accounts'[acc[c].id].lastday = acc[c].premiumLastDay
            /\ accounts'[acc[c].id].type = acc[c].accountType]_vars

\* The interleaving: B's save succeeded after A's load had read the row, A's
\* write-back replaced what B stored, and A's load succeeded as well.
C4_Witness ==
    /\ Loaded("A") /\ ret["A"]
    /\ pc["B"] = "idle" /\ op["B"] = <<"save">> /\ ret["B"]
    /\ lost["A"] = SavedColumns(acc["B"])
    /\ accounts[1].lastday # acc["B"].premiumLastDay
    /\ accounts[1].type # acc["B"].accountType
    /\ StoredColumns(accounts[1]) = SavedColumns(acc["A"])

\* C5: getCoins and setCoins with a coin type other than Normal, Tournament
\* and Transferable return failure without a round-trip to the store: no
\* column changes and the output of getCoins keeps its value.
C5_UnknownCoinType ==
    [][\A c \in Callers :
         (/\ pc[c] = "ready" /\ pc'[c] = "idle"
          /\ op'[c][1] \in {"getCoins", "setCoins"}
          /\ op'[c][3] \notin {Normal, Tournament, Transferable}) =>
            /\ ret'[c] = FALSE
            /\ trace'[c] = <<>>
            /\ accounts' = accounts
            /\ coins' = coins]_vars

\* getCoins with the coin type 4 has failed and left an output that is no
\* balance of the account.
C5_Witness ==
    \E c \in Callers :
        /\ pc[c] = "idle" /\ op[c] = <<"getCoins", 1, 4>>
        /\ ~ret[c] /\ trace[c] = <<>>
        /\ coins[c] = MaxCoins
        /\ \A col \in CoinColumns : accounts[1][col] # MaxCoins

\* C7: setCoins changes no balance but the one of its account and type; and
\* a getCoins of that account and type, with no write since a successful
\* setCoins, that gets a result returns success with the amount set.
C7_SetThenGet ==
    [][\A c \in Callers :
         /\ (pc[c] = "ready" /\ pc'[c] = "idle" /\ op'[c][1] = "setCoins") =>
              \A i \in DOMAIN accounts : \A col \in CoinColumns :
                  accounts'[i][col] # accounts[i][col] =>
                      /\ ret'[c]
                      /\ i = op'[c][2]
                      /\ col = coinTypeToColumn[op'[c][3]]
                      /\ accounts'[i][col] = op'[c][4]
         /\ (/\ pc[c] = "ready" /\ pc'[c] = "idle"
             /\ lastSet[c] # <<>>
             /\ op'[c] = <<"getCoins", lastSet[c][1], lastSet[c][2]>>
             /\ trace'[c][1].ok) =>
                /\ ret'[c]
                /\ coins'[c] = lastSet[c][3]
                /\ accounts' = accounts]_vars

\* getCoins has returned the amount a setCoins before it had set, which no
\* other balance of the account equals.
C7_Witness ==
    \E c \in Callers :
        /\ pc[c] = "idle" /\ op[c] = <<"getCoins", 1, Normal>> /\ ret[c]
        /\ lastSet[c] = <<1, Normal, MaxCoins>>
        /\ coins[c] = MaxCoins
        /\ accounts[1].tournament_coins # MaxCoins
        /\ accounts[1].coins_transferable # MaxCoins

\* C8: after a successful load the player set holds no deleted character,
\* holds every non-deleted character of the account, ascends by name, and
\* of the rows of one name holds the first the cursor gave.
C8_PlayerSet ==
    \A c \in Callers :
        (Loaded(c) /\ ret[c]) =>
            LET set == acc[c].players
                id == acc[c].id
                live == { k \in 1..Len(cursor[c]) : cursor[c][k].deletion = 0 }
            IN  /\ \A i \in 1..Len(set) :
                     /\ set[i].deletion = 0
                     /\ \E k \in 1..Len(players) :
                          players[k] = [account_id |-> id, name |-> set[i].name,
                                        deletion |-> 0]
                     /\ set[i].row \in live
                     /\ cursor[c][set[i].row].name = set[i].name
                     /\ \A k \in live :
                          cursor[c][k].name = set[i].name => set[i].row <= k
                /\ \A k \in 1..Len(players) :
                     (players[k].account_id = id /\ players[k].deletion = 0) =>
                         \E i \in 1..Len(set) : set[i].name = players[k].name
                /\ \A i, j \in 1..Len(set) :
                     i < j => NameRank(set[i].name) < NameRank(set[j].name)

\* A player set of two names from three rows stored out of order: one row
\* was deleted or had the name of another.
C8_Witness ==
    \E c \in Callers :
        /\ Loaded(c) /\ ret[c]
        /\ Len(cursor[c]) = 3
        /\ Len(acc[c].players) = 2
        /\ players[1].account_id = acc[c].id /\ players[1].name = "Bron"

====
